---- MODULE Spec2Model ----
(***************************************************************************)
(* Adaptive tile search and route progression of the image-harvest         *)
(* service (app/route_processor.py, app/core/boundary_analysis.py,         *)
(* app/core/panorama_discovery.py).                                        *)
(*                                                                         *)
(* Coordinates are integer metres on a plane, x growing eastwards and y    *)
(* growing southwards (the direction in which tile indices grow).          *)
(* Headings are integer degrees.                                           *)
(***************************************************************************)
EXTENDS Integers, Sequences, FiniteSets, TLC

VARIABLES
    pc,               \* position of the route request: geocode_start,
                      \* geocode_end, start, check, body, done, raised
    start_coord,      \* input of progress_along_route
    end_coord,        \* input of progress_along_route
    config,           \* input of progress_along_route (the config dict)
    file_paths,       \* list of downloaded file paths
    metadata_dict,    \* metadata of each file path, in download order
    visited_set,      \* set of "id_buildId" keys
    current_coord,
    current_heading,  \* clockwise degrees, NoHeading while None
    pano_count,
    total_distance,
    api_calls,        \* local of progress_along_route
    ambiguity_skips,  \* local of progress_along_route
    ambiguity_state,  \* the dict {"api_calls", "skips"}
    summary,          \* the summary dict, NoSummary until the run built one
    returned,         \* what progress_along_route handed back
    next_pano,        \* result of the last selection (NonePano for None)
    hist,             \* observations of the run, see InitHist
    tq,               \* one call of the tile planner: inputs and result
    call              \* one call of another entry point: inputs and result

vars == <<pc, start_coord, end_coord, config, file_paths, metadata_dict,
          visited_set, current_coord, current_heading, pano_count,
          total_distance, api_calls, ambiguity_skips, ambiguity_state,
          summary, returned, next_pano, hist, tq, call>>

routeVars == <<pc, start_coord, end_coord, config, file_paths, metadata_dict,
               visited_set, current_coord, current_heading, pano_count,
               total_distance, api_calls, ambiguity_skips, ambiguity_state,
               summary, returned, next_pano, hist>>

----------------------------------------------------------------------------
(* Bounds of the model *)

\* history counters stop counting at this value
MaxCount == 4

\* caps of the planner that are tried: 1 .. MaxCap
MaxCap == 5

\* longest list of panoramas handed to rank_panoramas_by_distance
MaxLen == 3

\* most tiles handed to fetch_adaptive_tiles
MaxTiles == 3

----------------------------------------------------------------------------
(* app/config.py *)

MAX_DISTANCE == 50
BOUNDARY_ADJACENT_THRESHOLD == 50
MAX_ADAPTIVE_TILES == 5
ROUTE_HEADING_SECTOR_DEGREES == 60
ROUTE_MAX_PANORAMAS == 50
ROUTE_SEARCH_RADIUS == 200
ROUTE_PROGRESSION_THRESHOLD == 10
ROUTE_MAX_AMBIGUOUS_SKIPS == 2

\* width and height of a zoom-17 tile, in metres
TileSize == 300

----------------------------------------------------------------------------
(* Values *)

NoHeading == -1

Coord(x, y) == [x |-> x, y |-> y]

Pano(i, b, x, y, h, s) ==
    [id |-> i, build_id |-> b, pos |-> Coord(x, y), heading |-> h, street |-> s]

\* Python's None as a panorama
NonePano == Pano(0, 0, 0, 0, NoHeading, "")

\* f"{pano.id}_{pano.build_id}"
PanoKey(p) == <<p.id, p.build_id>>

Abs(n) == IF n < 0 THEN -n ELSE n

Min(a, b) == IF a <= b THEN a ELSE b

\* largest r with r * r <= n
RECURSIVE ISqrtFrom(_, _)
ISqrtFrom(n, r) == IF (r + 1) * (r + 1) > n THEN r ELSE ISqrtFrom(n, r + 1)

\* calculate_distance: the great-circle distance, here the distance in the
\* plane rounded down to whole metres
calculate_distance(a, b) ==
    LET dx == Abs(a.x - b.x)
        dy == Abs(a.y - b.y)
    IN  IF dy = 0 THEN dx
        ELSE IF dx = 0 THEN dy
        ELSE ISqrtFrom(dx * dx + dy * dy, 0)

\* stable sort of a sequence of records by (k1, k2), as list.sort does
LexLeq(a, b) == a.k1 < b.k1 \/ (a.k1 = b.k1 /\ a.k2 <= b.k2)

RECURSIVE InsertStable(_, _)
InsertStable(sorted, e) ==
    IF sorted = <<>> THEN <<e>>
    ELSE LET last == sorted[Len(sorted)]
         IN  IF LexLeq(last, e) THEN Append(sorted, e)
             ELSE Append(InsertStable(SubSeq(sorted, 1, Len(sorted) - 1), e), last)

RECURSIVE StableSort(_)
StableSort(s) ==
    IF s = <<>> THEN <<>>
    ELSE InsertStable(StableSort(SubSeq(s, 1, Len(s) - 1)), s[Len(s)])

RECURSIVE SeqFilter(_, _)
SeqFilter(s, keep) ==
    IF s = <<>> THEN <<>>
    ELSE LET rest == SeqFilter(Tail(s), keep)
         IN  IF Head(s) \in keep THEN <<Head(s)>> \o rest ELSE rest

RECURSIVE Concat(_)
Concat(ss) == IF ss = <<>> THEN <<>> ELSE Head(ss) \o Concat(Tail(ss))

Range(s) == {s[i] : i \in 1..Len(s)}

\* all orders in which the elements of a finite set can be listed
Orders(S) ==
    {s \in [1..Cardinality(S) -> S] : \A i, j \in 1..Cardinality(S) : i # j => s[i] # s[j]}

----------------------------------------------------------------------------
(* app/core/boundary_analysis.py *)

Strategies == {"center-only", "single-direction", "corner", "multi-direction"}

\* tile of zoom 17 that holds a coordinate (geo.wgs84_to_tile_coord)
TileOf(c) == <<c.x \div TileSize, c.y \div TileSize>>

calculate_boundary_distances(c) ==
    [north |-> c.y % TileSize,
     south |-> TileSize - (c.y % TileSize),
     east  |-> TileSize - (c.x % TileSize),
     west  |-> c.x % TileSize,
     center_tile |-> TileOf(c)]

\* close_boundaries if an edge at exactly the threshold counted as close
CloseBoundaries_inclusive(bd) ==
    (IF bd.north <= BOUNDARY_ADJACENT_THRESHOLD THEN <<"north">> ELSE <<>>) \o
    (IF bd.south <= BOUNDARY_ADJACENT_THRESHOLD THEN <<"south">> ELSE <<>>) \o
    (IF bd.east  <= BOUNDARY_ADJACENT_THRESHOLD THEN <<"east">>  ELSE <<>>) \o
    (IF bd.west  <= BOUNDARY_ADJACENT_THRESHOLD THEN <<"west">>  ELSE <<>>)

\* the list close_boundaries, in the order the code appends to it
CloseBoundaries(bd) ==
    (IF bd.north < BOUNDARY_ADJACENT_THRESHOLD THEN <<"north">> ELSE <<>>) \o
    (IF bd.south < BOUNDARY_ADJACENT_THRESHOLD THEN <<"south">> ELSE <<>>) \o
    (IF bd.east  < BOUNDARY_ADJACENT_THRESHOLD THEN <<"east">>  ELSE <<>>) \o
    (IF bd.west  < BOUNDARY_ADJACENT_THRESHOLD THEN <<"west">>  ELSE <<>>)

\* the four distances determine_search_strategy reads first; a missing key
\* raises KeyError inside its try block
DistanceKeys == {"north", "south", "east", "west"}

determine_search_strategy(bd) ==
    LET close == CloseBoundaries(bd)
        has(b) == b \in Range(close)
    IN  IF ~(DistanceKeys \subseteq DOMAIN bd) THEN "center-only"
        ELSE IF Len(close) = 0 THEN "center-only"
        ELSE IF Len(close) = 1 THEN "single-direction"
        ELSE IF Len(close) = 2
             THEN IF \/ has("north") /\ has("east")
                     \/ has("north") /\ has("west")
                     \/ has("south") /\ has("east")
                     \/ has("south") /\ has("west")
                  THEN "corner"
                  ELSE "multi-direction"
        ELSE "multi-direction"

\* the neighbour if the east edge stepped in y as well as in x
AdjacentTile_east_diagonal(center, boundary) ==
    CASE boundary = "north" -> <<center[1], center[2] - 1>>
      [] boundary = "south" -> <<center[1], center[2] + 1>>
      [] boundary = "east"  -> <<center[1] + 1, center[2] + 1>>
      [] boundary = "west"  -> <<center[1] - 1, center[2]>>

\* the neighbour of the center tile across one boundary
AdjacentTile(center, boundary) ==
    CASE boundary = "north" -> <<center[1], center[2] - 1>>
      [] boundary = "south" -> <<center[1], center[2] + 1>>
      [] boundary = "east"  -> <<center[1] + 1, center[2]>>
      [] boundary = "west"  -> <<center[1] - 1, center[2]>>

\* min(..., key=distance) over north, south, east, west: the first minimum
ClosestBoundary(bd) ==
    LET names == <<"north", "south", "east", "west">>
        d(i) == bd[names[i]]
        best == CHOOSE i \in 1..4 :
                    /\ \A j \in 1..4 : d(i) <= d(j)
                    /\ \A j \in 1..(i - 1) : d(j) > d(i)
    IN  names[best]

RECURSIVE AdjacentTiles(_, _)
AdjacentTiles(center, boundaries) ==
    IF boundaries = <<>> THEN <<>>
    ELSE <<AdjacentTile(center, Head(boundaries))>>
         \o AdjacentTiles(center, Tail(boundaries))

\* the diagonal tile if the north-east corner were taken for the south-east one
CornerTile_wrong_diagonal(center, close) ==
    LET has(b) == b \in Range(close)
        cx == center[1]
        cy == center[2]
    IN  IF Len(close) >= 2
        THEN IF has("north") /\ has("east") THEN <<(<<cx + 1, cy + 1>>)>>
             ELSE IF has("north") /\ has("west") THEN <<(<<cx - 1, cy - 1>>)>>
             ELSE IF has("south") /\ has("east") THEN <<(<<cx + 1, cy + 1>>)>>
             ELSE IF has("south") /\ has("west") THEN <<(<<cx - 1, cy + 1>>)>>
             ELSE <<>>
        ELSE <<>>

\* the diagonal tile the corner strategy appends after the adjacent ones
CornerTile(center, close) ==
    LET has(b) == b \in Range(close)
        cx == center[1]
        cy == center[2]
    IN  IF Len(close) >= 2
        THEN IF has("north") /\ has("east") THEN <<(<<cx + 1, cy - 1>>)>>
             ELSE IF has("north") /\ has("west") THEN <<(<<cx - 1, cy - 1>>)>>
             ELSE IF has("south") /\ has("east") THEN <<(<<cx + 1, cy + 1>>)>>
             ELSE IF has("south") /\ has("west") THEN <<(<<cx - 1, cy + 1>>)>>
             ELSE <<>>
        ELSE <<>>

\* tiles_to_search if the center-only strategy also took the closest neighbour
TilesToSearch_center_adds_neighbour(search_strategy, bd) ==
    LET center == bd.center_tile
        close == CloseBoundaries(bd)
    IN  <<center>> \o
        (CASE search_strategy = "center-only" ->
                <<AdjacentTile(center, ClosestBoundary(bd))>>
           [] search_strategy = "single-direction" ->
                <<AdjacentTile(center, ClosestBoundary(bd))>>
           [] search_strategy = "corner" ->
                AdjacentTiles(center, close) \o CornerTile(center, close)
           [] search_strategy = "multi-direction" ->
                AdjacentTiles(center, close)
           [] OTHER -> <<>>)

\* the list tiles_to_search before duplicates are removed
TilesToSearch(search_strategy, bd) ==
    LET center == bd.center_tile
        close == CloseBoundaries(bd)
    IN  <<center>> \o
        (CASE search_strategy = "center-only" -> <<>>
           [] search_strategy = "single-direction" ->
                <<AdjacentTile(center, ClosestBoundary(bd))>>
           [] search_strategy = "corner" ->
                AdjacentTiles(center, close) \o CornerTile(center, close)
           [] search_strategy = "multi-direction" ->
                AdjacentTiles(center, close)
           [] OTHER -> <<>>)

\* lines 130, 211: the try block and the except branch both start by
\* reading boundary_distances["center_tile"]; without that key the KeyError
\* of the except branch leaves the function
SelectRaises(bd) == "center_tile" \notin DOMAIN bd

\* lines 136-198, 208-212: every strategy except center-only reads the
\* four distances; a missing one raises KeyError and the except branch
\* returns the center tile alone
SelectFallsBack(search_strategy, bd) ==
    /\ search_strategy \in {"single-direction", "corner", "multi-direction"}
    /\ ~(DistanceKeys \subseteq DOMAIN bd)

\* the planner if the slice kept one tile fewer than the cap allows
select_adaptive_tiles_cap_off_by_one(search_strategy, bd, cap) ==
    LET unique == Range(TilesToSearch(search_strategy, bd))
    IN  IF SelectFallsBack(search_strategy, bd) THEN {<<bd.center_tile>>}
        ELSE {IF Len(o) >= cap THEN SubSeq(o, 1, cap - 1) ELSE o :
                 o \in Orders(unique)}

\* list(set(tiles_to_search))[:cap]: a set lists its elements in an order
\* the language does not fix, so every order is a possible result
select_adaptive_tiles(search_strategy, bd, cap) ==
    LET unique == Range(TilesToSearch(search_strategy, bd))
    IN  IF SelectFallsBack(search_strategy, bd) THEN {<<bd.center_tile>>}
        ELSE {IF Len(o) > cap THEN SubSeq(o, 1, cap) ELSE o : o \in Orders(unique)}

----------------------------------------------------------------------------
(* The street the model runs along: what the coverage provider knows *)

\* heading is stored counter-clockwise; NoHeading marks a panorama that
\* carries no heading
World ==
    << Pano(1, 1, 100, 150, 270, "Lombard St"),
       Pano(2, 1, 140, 150, NoHeading, "Lombard St"),
       Pano(3, 1, 145, 150, 90, "Union St"),
       Pano(6, 1, 150, 150, 270, "Lombard St"),
       Pano(4, 1, 260, 150, 270, "Lombard St"),
       Pano(5, 1, 320, 150, 270, "Lombard St") >>

\* coverage.panos of one tile, in the provider's order
Coverage(tile) == SeqFilter(World, {p \in Range(World) : TileOf(p.pos) = tile})

start_street == "lombard st"

StartCoords == {Coord(105, 150), Coord(115, 150)}

EndCoords == {Coord(105, 150), Coord(115, 150), Coord(150, 150), Coord(320, 150)}

\* values of ROUTE_MAX_PANORAMAS a caller passes in the config dict
MaxPanoramasChoices == {1, 2, ROUTE_MAX_PANORAMAS}

----------------------------------------------------------------------------
(* app/core/panorama_discovery.py *)

\* fetch_adaptive_tiles: live is the set of tiles whose query answers; a
\* tile without panoramas or with a failing query is skipped
FetchedTiles(selected_tiles, live) ==
    SeqFilter(selected_tiles,
              {t \in Range(selected_tiles) : t \in live /\ Coverage(t) # <<>>})

\* raise Exception("No coverage tiles found at this location")
FetchRaises(selected_tiles, live) == FetchedTiles(selected_tiles, live) = <<>>

\* aggregate_panoramas: the panos of the fetched tiles, tile after tile
aggregate_panoramas(coverage_tiles) ==
    Concat([i \in 1..Len(coverage_tiles) |-> Coverage(coverage_tiles[i])])

\* the ranking if the sort did not keep the encounter order of equal distances
rank_panoramas_ties_reversed(panoramas, target_coord, max_distance) ==
    LET within == SeqFilter(panoramas,
                     {p \in Range(panoramas) :
                        calculate_distance(target_coord, p.pos) <= max_distance})
        keyed == [i \in 1..Len(within) |->
                     [k1 |-> 0,
                      k2 |-> calculate_distance(target_coord,
                                                within[Len(within) + 1 - i].pos),
                      v |-> within[Len(within) + 1 - i]]]
        sorted == StableSort(keyed)
    IN  [i \in 1..Len(sorted) |-> sorted[i].v]

\* the kept panoramas of rank_panoramas_by_distance, closest first
rank_panoramas_by_distance(panoramas, target_coord, max_distance) ==
    LET within == SeqFilter(panoramas,
                     {p \in Range(panoramas) :
                        calculate_distance(target_coord, p.pos) <= max_distance})
        keyed == [i \in 1..Len(within) |->
                     [k1 |-> 0, k2 |-> calculate_distance(target_coord, within[i].pos),
                      v |-> within[i]]]
        sorted == StableSort(keyed)
    IN  [i \in 1..Len(sorted) |-> sorted[i].v]

----------------------------------------------------------------------------
(* app/route_processor.py *)

\* (360 - degrees(heading) % 360) % 360
ClockwiseDegrees(heading) == (360 - (heading % 360)) % 360

\* the difference if it were not folded across 0/360
HeadingDiff_no_wrap(a, b) == Abs(a - b)

\* abs((a - b + 180) % 360 - 180)
HeadingDiff(a, b) == Abs(((a - b + 180) % 360) - 180)

\* the early exit if candidates without heading were passed over
RECURSIVE FirstByHeading_needs_heading(_, _)
FirstByHeading_needs_heading(candidates, heading) ==
    IF candidates = <<>> THEN <<>>
    ELSE LET pano == Head(candidates)
         IN  IF /\ pano.heading # NoHeading
                /\ HeadingDiff(ClockwiseDegrees(pano.heading), heading)
                        <= ROUTE_HEADING_SECTOR_DEGREES
             THEN <<pano>>
             ELSE FirstByHeading_needs_heading(Tail(candidates), heading)

\* lines 18-38: the loop of the early exit over the candidates
RECURSIVE FirstByHeading(_, _)
FirstByHeading(candidates, heading) ==
    IF candidates = <<>> THEN <<>>
    ELSE LET pano == Head(candidates)
         IN  IF pano.heading = NoHeading THEN <<pano>>
             ELSE IF HeadingDiff(ClockwiseDegrees(pano.heading), heading)
                        <= ROUTE_HEADING_SECTOR_DEGREES
             THEN <<pano>>
             ELSE FirstByHeading(Tail(candidates), heading)

\* the filter if it handed every candidate on whatever the heading is
apply_street_heuristics_unfiltered(candidates, heading) == candidates

\* lines 14-41: with a heading the first candidate in the sector or without
\* heading alone, without a heading all candidates
apply_street_heuristics_func(candidates, heading) ==
    IF heading # NoHeading THEN FirstByHeading(candidates, heading)
    ELSE candidates

\* the candidates if the list were returned in encounter order, unsorted
nearby_candidates_unsorted(all_panoramas, coord, search_radius, visited) ==
    SeqFilter(all_panoramas,
              {p \in Range(all_panoramas) :
                 /\ calculate_distance(coord, p.pos) <= search_radius
                 /\ PanoKey(p) \notin visited})

\* lines 171-187 of find_nearby_panoramas_func: the aggregated panoramas
\* within the radius and not visited, stably sorted by distance
nearby_candidates(all_panoramas, coord, search_radius, visited) ==
    LET candidates == SeqFilter(all_panoramas,
                         {p \in Range(all_panoramas) :
                            /\ calculate_distance(coord, p.pos) <= search_radius
                            /\ PanoKey(p) \notin visited})
        keyed == [i \in 1..Len(candidates) |->
                     [k1 |-> 0, k2 |-> calculate_distance(coord, candidates[i].pos),
                      v |-> candidates[i]]]
        sorted == StableSort(keyed)
    IN  [i \in 1..Len(sorted) |-> sorted[i].v]

\* find_nearby_panoramas_func without the "not in visited_set" test
find_nearby_keeps_visited(coord, search_radius, visited, order, live) ==
    IF FetchRaises(order, live) THEN <<>>
    ELSE LET all_panoramas == aggregate_panoramas(FetchedTiles(order, live))
             candidates == SeqFilter(all_panoramas,
                              {p \in Range(all_panoramas) :
                                 calculate_distance(coord, p.pos) <= search_radius})
             keyed == [i \in 1..Len(candidates) |->
                          [k1 |-> 0, k2 |-> calculate_distance(coord, candidates[i].pos),
                           v |-> candidates[i]]]
             sorted == StableSort(keyed)
         IN  [i \in 1..Len(sorted) |-> sorted[i].v]

\* find_nearby_panoramas_func; order is the order in which the set of
\* planned tiles happens to be listed, live the tiles that answer
find_nearby_panoramas_func(coord, search_radius, visited, order, live) ==
    IF FetchRaises(order, live) THEN <<>>
    ELSE nearby_candidates(aggregate_panoramas(FetchedTiles(order, live)),
                           coord, search_radius, visited)

\* the tiles planned around a coordinate, in every order they can come in
PlannedTiles(coord) ==
    LET bd == calculate_boundary_distances(coord)
    IN  select_adaptive_tiles(determine_search_strategy(bd), bd, MAX_ADAPTIVE_TILES)

\* the score if a distance of exactly 50 or 100 m still earned the points
Score_inclusive(pano, coord, end) ==
    LET dist_to_current == calculate_distance(coord, pano.pos)
        dist_to_end == calculate_distance(pano.pos, end)
    IN  (IF dist_to_current <= 50 THEN 2 ELSE IF dist_to_current <= 100 THEN 1 ELSE 0)
        + (IF dist_to_end < calculate_distance(coord, end) THEN 2 ELSE 0)

\* lines 71-81: the score of one candidate
Score(pano, coord, end) ==
    LET dist_to_current == calculate_distance(coord, pano.pos)
        dist_to_end == calculate_distance(pano.pos, end)
    IN  (IF dist_to_current < 50 THEN 2 ELSE IF dist_to_current < 100 THEN 1 ELSE 0)
        + (IF dist_to_end < calculate_distance(coord, end) THEN 2 ELSE 0)

\* the candidates holding the top score, after scored.sort
TopCandidates(filtered_candidates, coord, end) ==
    LET scored == [i \in 1..Len(filtered_candidates) |->
                      [k1 |-> 0 - Score(filtered_candidates[i], coord, end),
                       k2 |-> calculate_distance(filtered_candidates[i].pos, end),
                       v  |-> filtered_candidates[i]]]
        sorted == StableSort(scored)
        top == SeqFilter(sorted, {e \in Range(sorted) : e.k1 = sorted[1].k1})
    IN  [i \in 1..Len(top) |-> top[i].v]

\* select_next_panorama_func: the selected panorama and the ambiguity state.
\* With several top candidates the code enters its try block, whose first
\* statement "from app.core.utils import normalize_address" raises
\* ImportError (app/core/utils.py defines calculate_distance only), so no
\* reverse-geocode request is made and the except branch counts a skip.
select_next_panorama_func(filtered_candidates, coord, end, state) ==
    IF filtered_candidates = <<>> THEN [pano |-> NonePano, state |-> state]
    ELSE LET top_candidates == TopCandidates(filtered_candidates, coord, end)
         IN  IF Len(top_candidates) = 1
             THEN [pano |-> top_candidates[1], state |-> state]
             ELSE [pano |-> NonePano,
                   state |-> [api_calls |-> state.api_calls,
                              skips |-> state.skips + 1]]

\* should_terminate_route without the proximity test
should_terminate_no_proximity(coord, end, count, skips, cfg) ==
    \/ count >= cfg.ROUTE_MAX_PANORAMAS
    \/ skips > cfg.ROUTE_MAX_AMBIGUOUS_SKIPS

should_terminate_route(coord, end, count, skips, cfg) ==
    \/ calculate_distance(coord, end) <= cfg.ROUTE_PROGRESSION_THRESHOLD
    \/ count >= cfg.ROUTE_MAX_PANORAMAS
    \/ skips > cfg.ROUTE_MAX_AMBIGUOUS_SKIPS


\* download_func: the metadata a download at a coordinate can report, one
\* record for every panorama within MAX_DISTANCE of the coordinate
DownloadMetadata(coord) ==
    {[id |-> p.id, build_id |-> p.build_id, coordinates |-> p.pos,
      heading_degrees |-> IF p.heading = NoHeading THEN NoHeading
                          ELSE ClockwiseDegrees(p.heading)] :
        p \in {q \in Range(World) : calculate_distance(coord, q.pos) <= MAX_DISTANCE}}

NoSummary ==
    [panoramas_collected |-> 0, total_distance_m |-> 0, api_calls |-> 0,
     ambiguity_skips |-> 0, file_paths |-> <<>>, route_completed |-> FALSE,
     termination_reason |-> "", error |-> FALSE]

\* the summary dict with the last two termination reasons exchanged
RunSummarySwapped(coord, count, distance, calls, skips, paths) ==
    [panoramas_collected |-> count, total_distance_m |-> distance,
     api_calls |-> calls, ambiguity_skips |-> skips, file_paths |-> paths,
     route_completed |-> count > 1,
     termination_reason |->
        IF count >= config.ROUTE_MAX_PANORAMAS THEN "max_panos"
        ELSE IF should_terminate_route(coord, end_coord, count, skips, config)
             THEN "no_more_candidates"
        ELSE "proximity_to_end",
     error |-> FALSE]

\* the summary dict of the normal return
RunSummary(coord, count, distance, calls, skips, paths) ==
    [panoramas_collected |-> count, total_distance_m |-> distance,
     api_calls |-> calls, ambiguity_skips |-> skips, file_paths |-> paths,
     route_completed |-> count > 1,
     termination_reason |->
        IF count >= config.ROUTE_MAX_PANORAMAS THEN "max_panos"
        ELSE IF should_terminate_route(coord, end_coord, count, skips, config)
             THEN "proximity_to_end"
        ELSE "no_more_candidates",
     error |-> FALSE]

\* the summary dict of the except branch: it has no termination_reason
ErrorSummary(count, distance, calls, skips, paths) ==
    [panoramas_collected |-> count, total_distance_m |-> distance,
     api_calls |-> calls, ambiguity_skips |-> skips, file_paths |-> paths,
     route_completed |-> FALSE, termination_reason |-> "", error |-> TRUE]

Saturate(n) == Min(n + 1, MaxCount)

InitHist ==
    [skip_events |-> 0,      \* iterations that ended without a new panorama
     searches |-> 0,         \* calls of find_nearby_panoramas_func
     selected_keys |-> {},   \* keys selection has returned so far
     fetch_raised |-> FALSE, \* the last tile fetch raised "no coverage"
     stop_by_skips |-> FALSE,\* the loop stopped on the skip condition alone
     tied |-> <<>>,          \* top candidates of the last selection
     geocode_calls |-> 0,    \* calls of geocode_func
     geocode_failed |-> "",  \* the address whose geocoding raised
     download_calls |-> 0,   \* calls of download_func
     exit |-> "none"]        \* how the run left the loop

\* no other entry point is being called
NoCall == [kind |-> "none"]

NoTileQuery ==
    [phase |-> "idle", strategy |-> "center-only",
     bd |-> calculate_boundary_distances(Coord(0, 0)), cap |-> 0, tiles |-> <<>>,
     determined |-> ""]

----------------------------------------------------------------------------
(* progress_along_route *)

Configs ==
    {[ROUTE_HEADING_SECTOR_DEGREES |-> ROUTE_HEADING_SECTOR_DEGREES,
      ROUTE_MAX_PANORAMAS |-> m,
      ROUTE_SEARCH_RADIUS |-> ROUTE_SEARCH_RADIUS,
      ROUTE_PROGRESSION_THRESHOLD |-> ROUTE_PROGRESSION_THRESHOLD,
      ROUTE_MAX_AMBIGUOUS_SKIPS |-> ROUTE_MAX_AMBIGUOUS_SKIPS] :
        m \in MaxPanoramasChoices}

Init ==
    /\ pc = "geocode_start"
    /\ start_coord \in StartCoords
    /\ end_coord \in EndCoords
    /\ config \in Configs
    /\ file_paths = <<>>
    /\ metadata_dict = <<>>
    /\ visited_set = {}
    /\ current_coord = start_coord
    /\ current_heading = NoHeading
    /\ pano_count = 0
    /\ total_distance = 0
    /\ api_calls = 0
    /\ ambiguity_skips = 0
    /\ ambiguity_state = [api_calls |-> 0, skips |-> 0]
    /\ summary = NoSummary
    /\ returned = FALSE
    /\ next_pano = NonePano
    /\ hist = InitHist
    /\ tq = NoTileQuery
    /\ call = NoCall

\* the name of the file written by the n-th successful download
FilePath(n) == n

\* the failure of geocode_func is swallowed and the run goes on
GeocodeFailurePc_swallowed == "start"

\* where process_route_request goes when geocode_func raises: its except
\* branch logs and re-raises (lines 413-415)
GeocodeFailurePc == "raised"

\* line 374: geocode_func(start_address) returns start_coord
GeocodeStartOk ==
    /\ pc = "geocode_start"
    /\ hist' = [hist EXCEPT !.geocode_calls = @ + 1]
    /\ pc' = "geocode_end"
    /\ UNCHANGED <<start_coord, end_coord, config, file_paths, metadata_dict,
                   visited_set, current_coord, current_heading, pano_count,
                   total_distance, api_calls, ambiguity_skips, ambiguity_state,
                   summary, returned, next_pano, tq, call>>

\* line 375: geocode_func(end_address) returns end_coord
GeocodeEndOk ==
    /\ pc = "geocode_end"
    /\ hist' = [hist EXCEPT !.geocode_calls = @ + 1]
    /\ pc' = "start"
    /\ UNCHANGED <<start_coord, end_coord, config, file_paths, metadata_dict,
                   visited_set, current_coord, current_heading, pano_count,
                   total_distance, api_calls, ambiguity_skips, ambiguity_state,
                   summary, returned, next_pano, tq, call>>

\* lines 374-375, 413-415: geocode_func raises for one of the addresses
GeocodeFails ==
    /\ pc \in {"geocode_start", "geocode_end"}
    /\ hist' = [hist EXCEPT
          !.geocode_calls = @ + 1,
          !.geocode_failed = IF pc = "geocode_start" THEN "start" ELSE "end"]
    /\ pc' = GeocodeFailurePc
    /\ UNCHANGED <<start_coord, end_coord, config, file_paths, metadata_dict,
                   visited_set, current_coord, current_heading, pano_count,
                   total_distance, api_calls, ambiguity_skips, ambiguity_state,
                   summary, returned, next_pano, tq, call>>

\* the start download if the start panorama were not marked as visited
StartDownloadOk_not_visited ==
    /\ pc = "start"
    /\ \E metadata \in DownloadMetadata(start_coord) :
          /\ file_paths' = Append(file_paths, FilePath(Len(file_paths) + 1))
          /\ metadata_dict' = Append(metadata_dict, metadata)
          /\ current_heading' = IF metadata.heading_degrees # NoHeading
                                THEN metadata.heading_degrees
                                ELSE current_heading
          /\ current_coord' = metadata.coordinates
    /\ pano_count' = pano_count + 1
    /\ hist' = [hist EXCEPT !.download_calls = Saturate(@)]
    /\ pc' = "check"
    /\ UNCHANGED <<start_coord, end_coord, config, visited_set, total_distance,
                   api_calls, ambiguity_skips, ambiguity_state, summary,
                   returned, next_pano, tq, call>>

\* lines 242-264: the start panorama is downloaded and recorded
StartDownloadOk ==
    /\ pc = "start"
    /\ \E metadata \in DownloadMetadata(start_coord) :
          /\ file_paths' = Append(file_paths, FilePath(Len(file_paths) + 1))
          /\ metadata_dict' = Append(metadata_dict, metadata)
          /\ current_heading' = IF metadata.heading_degrees # NoHeading
                                THEN metadata.heading_degrees
                                ELSE current_heading
          /\ visited_set' = visited_set \cup {<<metadata.id, metadata.build_id>>}
          /\ current_coord' = metadata.coordinates
    /\ pano_count' = pano_count + 1
    /\ hist' = [hist EXCEPT !.download_calls = Saturate(@)]
    /\ pc' = "check"
    /\ UNCHANGED <<start_coord, end_coord, config, total_distance, api_calls,
                   ambiguity_skips, ambiguity_state, summary, returned,
                   next_pano, tq, call>>

\* lines 244, 350-362: download_func raises for the start coordinate, the
\* except branch builds its summary and the function returns normally
StartDownloadFails ==
    /\ pc = "start"
    /\ summary' = ErrorSummary(pano_count, total_distance, api_calls,
                               ambiguity_skips, file_paths)
    /\ returned' = TRUE
    /\ hist' = [hist EXCEPT !.exit = "exception",
                             !.download_calls = Saturate(@)]
    /\ pc' = "done"
    /\ UNCHANGED <<start_coord, end_coord, config, file_paths, metadata_dict,
                   visited_set, current_coord, current_heading, pano_count,
                   total_distance, api_calls, ambiguity_skips, ambiguity_state,
                   next_pano, tq, call>>

\* the loop if its condition did not look at the number of panoramas
LoopEnter_ignores_count ==
    /\ pc = "check"
    /\ ~should_terminate_route(current_coord, end_coord, 0, ambiguity_skips,
                               config)
    /\ pc' = "body"
    /\ UNCHANGED <<start_coord, end_coord, config, file_paths, metadata_dict,
                   visited_set, current_coord, current_heading, pano_count,
                   total_distance, api_calls, ambiguity_skips, ambiguity_state,
                   summary, returned, next_pano, hist, tq, call>>

\* line 267: the while condition lets the loop body run
LoopEnter ==
    /\ pc = "check"
    /\ ~should_terminate_route(current_coord, end_coord, pano_count,
                               ambiguity_skips, config)
    /\ pc' = "body"
    /\ UNCHANGED <<start_coord, end_coord, config, file_paths, metadata_dict,
                   visited_set, current_coord, current_heading, pano_count,
                   total_distance, api_calls, ambiguity_skips, ambiguity_state,
                   summary, returned, next_pano, hist, tq, call>>

\* lines 333-348: the summary is built and the run returns
Finish(how, raised) ==
    /\ summary' = RunSummary(current_coord, pano_count, total_distance,
                             api_calls, ambiguity_skips, file_paths)
    /\ returned' = TRUE
    /\ pc' = "done"
    /\ hist' = [hist EXCEPT
          !.exit = how,
          !.fetch_raised = raised,
          !.searches = IF how = "terminated" THEN @ ELSE Saturate(@),
          !.stop_by_skips =
              /\ how = "terminated"
              /\ calculate_distance(current_coord, end_coord)
                    > config.ROUTE_PROGRESSION_THRESHOLD
              /\ pano_count < config.ROUTE_MAX_PANORAMAS]
    /\ UNCHANGED <<start_coord, end_coord, config, file_paths, metadata_dict,
                   visited_set, current_coord, current_heading, pano_count,
                   total_distance, api_calls, ambiguity_skips, ambiguity_state,
                   next_pano, tq, call>>

\* line 267: the while condition ends the loop
LoopExit ==
    /\ pc = "check"
    /\ should_terminate_route(current_coord, end_coord, pano_count,
                              ambiguity_skips, config)
    /\ Finish("terminated", FALSE)

Candidates(order, live) ==
    find_nearby_panoramas_func(current_coord, config.ROUTE_SEARCH_RADIUS,
                               visited_set, order, live)

Filtered(order, live) ==
    apply_street_heuristics_func(Candidates(order, live), current_heading)

Selection(order, live) ==
    select_next_panorama_func(Filtered(order, live), current_coord, end_coord,
                              ambiguity_state)

\* the candidates that share the top score in this iteration's selection
Tied(order, live) == TopCandidates(Filtered(order, live), current_coord, end_coord)

\* lines 272-276: the search finds nothing and the loop breaks
IterNoCandidates ==
    /\ pc = "body"
    /\ \E order \in PlannedTiles(current_coord) : \E live \in SUBSET Range(order) :
          /\ Candidates(order, live) = <<>>
          /\ Finish("no_candidates", FetchRaises(order, live))

\* lines 279-285: no candidate passes the heading filter and the loop breaks
IterFilteredOut ==
    /\ pc = "body"
    /\ \E order \in PlannedTiles(current_coord) : \E live \in SUBSET Range(order) :
          /\ Candidates(order, live) # <<>>
          /\ Filtered(order, live) = <<>>
          /\ Finish("filtered_out", FALSE)

\* lines 288-300: selection returns None
IterNothingSelected ==
    /\ pc = "body"
    /\ \E order \in PlannedTiles(current_coord) : \E live \in SUBSET Range(order) :
          LET sel == Selection(order, live)
          IN  /\ Filtered(order, live) # <<>>
              /\ sel.pano = NonePano
              /\ ambiguity_state' = sel.state
              /\ api_calls' = sel.state.api_calls
              /\ ambiguity_skips' = sel.state.skips + 1
              /\ next_pano' = NonePano
              /\ hist' = [hist EXCEPT
                    !.skip_events = Saturate(@),
                    !.searches = Saturate(@),
                    !.fetch_raised = FALSE,
                    !.tied = Tied(order, live)]
    /\ pc' = "check"
    /\ UNCHANGED <<start_coord, end_coord, config, file_paths, metadata_dict,
                   visited_set, current_coord, current_heading, pano_count,
                   total_distance, summary, returned, tq, call>>

\* lines 303-305, 327-330: the download of the selected panorama raises
IterDownloadFails ==
    /\ pc = "body"
    /\ \E order \in PlannedTiles(current_coord) : \E live \in SUBSET Range(order) :
          LET sel == Selection(order, live)
          IN  /\ Filtered(order, live) # <<>>
              /\ sel.pano # NonePano
              /\ ambiguity_state' = sel.state
              /\ api_calls' = sel.state.api_calls
              /\ ambiguity_skips' = sel.state.skips + 1
              /\ next_pano' = sel.pano
              /\ hist' = [hist EXCEPT
                    !.skip_events = Saturate(@),
                    !.searches = Saturate(@),
                    !.download_calls = Saturate(@),
                    !.fetch_raised = FALSE,
                    !.tied = Tied(order, live),
                    !.selected_keys = @ \cup {PanoKey(sel.pano)}]
    /\ pc' = "check"
    /\ UNCHANGED <<start_coord, end_coord, config, file_paths, metadata_dict,
                   visited_set, current_coord, current_heading, pano_count,
                   total_distance, summary, returned, tq, call>>

\* lines 303-325: the selected panorama is downloaded and the run advances
IterAdvance ==
    /\ pc = "body"
    /\ \E order \in PlannedTiles(current_coord) : \E live \in SUBSET Range(order) :
          LET sel == Selection(order, live)
          IN  /\ Filtered(order, live) # <<>>
              /\ sel.pano # NonePano
              /\ \E metadata \in DownloadMetadata(sel.pano.pos) :
                    /\ file_paths' = Append(file_paths, FilePath(Len(file_paths) + 1))
                    /\ metadata_dict' = Append(metadata_dict, metadata)
                    /\ current_heading' = IF metadata.heading_degrees # NoHeading
                                          THEN metadata.heading_degrees
                                          ELSE current_heading
              /\ ambiguity_state' = sel.state
              /\ api_calls' = sel.state.api_calls
              /\ ambiguity_skips' = sel.state.skips
              /\ next_pano' = sel.pano
              /\ visited_set' = visited_set \cup {PanoKey(sel.pano)}
              /\ total_distance' = total_distance
                                   + calculate_distance(current_coord, sel.pano.pos)
              /\ current_coord' = sel.pano.pos
              /\ hist' = [hist EXCEPT
                    !.searches = Saturate(@),
                    !.download_calls = Saturate(@),
                    !.fetch_raised = FALSE,
                    !.tied = Tied(order, live),
                    !.selected_keys = @ \cup {PanoKey(sel.pano)}]
    /\ pano_count' = pano_count + 1
    /\ pc' = "check"
    /\ UNCHANGED <<start_coord, end_coord, config, summary, returned, tq, call>>

Next ==
    \/ GeocodeStartOk
    \/ GeocodeEndOk
    \/ GeocodeFails
    \/ StartDownloadOk
    \/ StartDownloadFails
    \/ LoopEnter
    \/ LoopExit
    \/ IterNoCandidates
    \/ IterFilteredOut
    \/ IterNothingSelected
    \/ IterDownloadFails
    \/ IterAdvance

Spec == Init /\ [][Next]_vars

\* the interpreter keeps executing the run's next statement
FairSpec == Spec /\ WF_vars(Next)

----------------------------------------------------------------------------
(* One call of select_adaptive_tiles on arbitrary arguments *)

BoundaryDistanceChoices == {30, 50, 200}

TileQueries ==
    {[phase |-> "input", strategy |-> st,
      bd |-> [north |-> n, south |-> so, east |-> e, west |-> w,
              center_tile |-> <<10, 10>>],
      cap |-> c, tiles |-> <<>>, determined |-> ""] :
        st \in Strategies, n \in BoundaryDistanceChoices,
        so \in BoundaryDistanceChoices, e \in BoundaryDistanceChoices,
        w \in BoundaryDistanceChoices, c \in 1..MaxCap}

\* no route run is in progress
RouteIdle ==
    /\ pc = "idle"
    /\ start_coord = Coord(0, 0)
    /\ end_coord = Coord(0, 0)
    /\ config \in {c \in Configs : c.ROUTE_MAX_PANORAMAS = ROUTE_MAX_PANORAMAS}
    /\ file_paths = <<>>
    /\ metadata_dict = <<>>
    /\ visited_set = {}
    /\ current_coord = Coord(0, 0)
    /\ current_heading = NoHeading
    /\ pano_count = 0
    /\ total_distance = 0
    /\ api_calls = 0
    /\ ambiguity_skips = 0
    /\ ambiguity_state = [api_calls |-> 0, skips |-> 0]
    /\ summary = NoSummary
    /\ returned = FALSE
    /\ next_pano = NonePano
    /\ hist = InitHist

TileInit == RouteIdle /\ tq \in TileQueries /\ call = NoCall

\* the planner is called with MAX_ADAPTIVE_TILES configured as tq.cap
SelectTiles ==
    /\ tq.phase = "input"
    /\ \E tiles \in select_adaptive_tiles(tq.strategy, tq.bd, tq.cap) :
          tq' = [tq EXCEPT !.phase = "output", !.tiles = tiles]
    /\ UNCHANGED <<routeVars, call>>

\* determine_search_strategy is called on the same boundary distances
DetermineStrategy ==
    /\ tq.phase # "idle"
    /\ tq.determined = ""
    /\ tq' = [tq EXCEPT !.determined = determine_search_strategy(tq.bd)]
    /\ UNCHANGED <<routeVars, call>>

TileNext == SelectTiles \/ DetermineStrategy

TileSpec == TileInit /\ [][TileNext]_vars

----------------------------------------------------------------------------
(* One call of rank_panoramas_by_distance on arbitrary arguments *)

\* panoramas east and west of the reference points, some at equal distance
RankPanos ==
    {Pano(1, 1, 90, 150, 270, "Lombard St"),
     Pano(2, 1, 110, 150, NoHeading, "Lombard St"),
     Pano(3, 1, 150, 150, 90, "Union St"),
     Pano(4, 1, 151, 150, 270, "Lombard St")}

RankTargets == {Coord(100, 150), Coord(130, 150)}

RankMaxDistances == {10, MAX_DISTANCE, ROUTE_SEARCH_RADIUS}

\* all lists of at most n elements of S
SeqsUpTo(S, n) == UNION {[1..k -> S] : k \in 0..n}

RankCalls ==
    {[kind |-> "rank", phase |-> "input", panoramas |-> ps, target_coord |-> t,
      max_distance |-> m, raised |-> FALSE, ranked |-> <<>>] :
        ps \in SeqsUpTo(RankPanos, MaxLen), t \in RankTargets,
        m \in RankMaxDistances}

RankInit == RouteIdle /\ tq = NoTileQuery /\ call \in RankCalls

\* lines 108-131: the filtered list is sorted and returned
\* the ranking if an empty filtered list were returned like any other
RankReturns_also_empty ==
    /\ call.phase = "input"
    /\ call' = [call EXCEPT
          !.phase = "output",
          !.ranked = rank_panoramas_by_distance(call.panoramas, call.target_coord,
                                                call.max_distance)]
    /\ UNCHANGED <<routeVars, tq>>
RankReturns ==
    /\ call.phase = "input"
    /\ LET ranked == rank_panoramas_by_distance(call.panoramas, call.target_coord,
                                                call.max_distance)
       IN  /\ ranked # <<>>
           /\ call' = [call EXCEPT !.phase = "output", !.ranked = ranked]
    /\ UNCHANGED <<routeVars, tq>>

\* lines 116-118, 133-135: no panorama is within max_distance
RankRaises ==
    /\ call.phase = "input"
    /\ rank_panoramas_by_distance(call.panoramas, call.target_coord,
                                  call.max_distance) = <<>>
    /\ call' = [call EXCEPT !.phase = "output", !.raised = TRUE]
    /\ UNCHANGED <<routeVars, tq>>

RankNext == RankReturns \/ RankRaises

RankSpec == RankInit /\ [][RankNext]_vars

----------------------------------------------------------------------------
(* One call of fetch_adaptive_tiles on arbitrary planned tiles *)

FetchTileChoices == {<<10, 9 + k>> : k \in 1..MaxTiles}

\* what lookaround.get_coverage_tile does for a tile: it returns coverage
\* with panoramas, returns none or an empty coverage, or raises
ProviderOutcomes == {"panos", "empty", "raises"}

FetchCalls ==
    {[kind |-> "fetch", phase |-> "loop", selected_tiles |-> o, provider |-> pr,
      i |-> 1, queried |-> <<>>, coverage_tiles |-> <<>>] :
        o \in UNION {Orders(S) : S \in SUBSET FetchTileChoices},
        pr \in [FetchTileChoices -> ProviderOutcomes]}

FetchInit == RouteIdle /\ tq = NoTileQuery /\ call \in FetchCalls

\* the loop of line 27 has a tile left whose query has the given outcome
FetchAt(outcome) ==
    /\ call.phase = "loop"
    /\ call.i <= Len(call.selected_tiles)
    /\ call.provider[call.selected_tiles[call.i]] = outcome

\* lines 30, 38-40: the tile has panoramas and its coverage is appended
FetchTileFound ==
    /\ FetchAt("panos")
    /\ call' = [call EXCEPT
          !.queried = Append(@, call.selected_tiles[call.i]),
          !.coverage_tiles = Append(@, call.selected_tiles[call.i]),
          !.i = @ + 1]
    /\ UNCHANGED <<routeVars, tq>>

\* lines 30, 38, 41-42: the tile has no panoramas, a warning is logged
FetchTileEmpty ==
    /\ FetchAt("empty")
    /\ call' = [call EXCEPT
          !.queried = Append(@, call.selected_tiles[call.i]),
          !.i = @ + 1]
    /\ UNCHANGED <<routeVars, tq>>

\* the query raises and the whole call fails at once
FetchTileFails_aborts ==
    /\ FetchAt("raises")
    /\ call' = [call EXCEPT
          !.queried = Append(@, call.selected_tiles[call.i]),
          !.phase = "raised"]
    /\ UNCHANGED <<routeVars, tq>>

\* lines 30, 44-46: the query raises, the error is logged and the loop goes on
FetchTileFails ==
    /\ FetchAt("raises")
    /\ call' = [call EXCEPT
          !.queried = Append(@, call.selected_tiles[call.i]),
          !.i = @ + 1]
    /\ UNCHANGED <<routeVars, tq>>

\* lines 48, 52-53: the loop is over and some tile had panoramas
FetchReturns ==
    /\ call.phase = "loop"
    /\ call.i > Len(call.selected_tiles)
    /\ call.coverage_tiles # <<>>
    /\ call' = [call EXCEPT !.phase = "returned"]
    /\ UNCHANGED <<routeVars, tq>>

\* lines 48-50, 55-57: the loop is over and no tile had panoramas
FetchNoCoverage ==
    /\ call.phase = "loop"
    /\ call.i > Len(call.selected_tiles)
    /\ call.coverage_tiles = <<>>
    /\ call' = [call EXCEPT !.phase = "raised"]
    /\ UNCHANGED <<routeVars, tq>>

FetchNext ==
    \/ FetchTileFound
    \/ FetchTileEmpty
    \/ FetchTileFails
    \/ FetchReturns
    \/ FetchNoCoverage

FetchSpec == FetchInit /\ [][FetchNext]_vars

----------------------------------------------------------------------------
(* app/main.py: one request to the /harvest endpoint *)

\* LocationRequest.coordinates is None
NoCoordinates == Coord(-1, -1)

\* LocationRequest.address is None
NoAddress == "<None>"

\* coordinates a request can carry; the last has no panorama nearby
HarvestCoords ==
    {Coord(105, 150), Coord(150, 150), Coord(320, 150), Coord(1000, 150)}

HarvestAddresses == {NoAddress, "", "Lombard St", "Nowhere St"}

\* `if location.coordinates`: a Coordinate object is true, None is not
HasCoordinates(location) == location.coordinates # NoCoordinates

\* `elif location.address`: None and the empty string are not true
HasAddress(location) == location.address \notin {NoAddress, ""}

\* the status of the HTTPException download_lookaround_panorama raises, or
\* 0 when it returns a file: it needs the provider and a panorama within
\* MAX_DISTANCE (lines 161-271)
download_lookaround_panorama(coord, provider_up) ==
    IF provider_up /\ DownloadMetadata(coord) # {} THEN 0 ELSE 500

\* lines 319-321: `except Exception` catches whatever the try block raised,
\* HTTPException included, and raises HTTPException(status_code=500)
harvest_except(raised_status) == 500

\* geocoded is what geocode_address gives for the address of the request
\* (NoCoordinates: it raises HTTPException 400)
HarvestCalls ==
    {[kind |-> "harvest", phase |-> "request", coordinates |-> c, address |-> a,
      geocoded |-> g, provider_up |-> up, raised |-> 0, status |-> 0,
      file_paths |-> 0] :
        c \in HarvestCoords \cup {NoCoordinates}, a \in HarvestAddresses,
        g \in HarvestCoords \cup {NoCoordinates}, up \in BOOLEAN}

HarvestInit == RouteIdle /\ tq = NoTileQuery /\ call \in HarvestCalls

\* the response: 200 with one file, or the status the except branch raises
HarvestResponse(raised_status) ==
    IF raised_status = 0
    THEN [call EXCEPT !.phase = "responded", !.status = 200, !.file_paths = 1]
    ELSE [call EXCEPT !.phase = "responded", !.raised = raised_status,
                      !.status = harvest_except(raised_status)]

\* lines 290-293: the request carries coordinates
HarvestCoordinates ==
    /\ call.phase = "request"
    /\ HasCoordinates(call)
    /\ call' = HarvestResponse(
                  download_lookaround_panorama(call.coordinates, call.provider_up))
    /\ UNCHANGED <<routeVars, tq>>

\* lines 296-309: the request carries an address only
HarvestAddress ==
    /\ call.phase = "request"
    /\ ~HasCoordinates(call)
    /\ HasAddress(call)
    /\ call' = HarvestResponse(
                  IF call.geocoded = NoCoordinates THEN 400
                  ELSE download_lookaround_panorama(call.geocoded, call.provider_up))
    /\ UNCHANGED <<routeVars, tq>>

\* lines 311-315: the request carries neither, HTTPException(400) is raised
\* inside the try block
HarvestNeither ==
    /\ call.phase = "request"
    /\ ~HasCoordinates(call)
    /\ ~HasAddress(call)
    /\ call' = HarvestResponse(400)
    /\ UNCHANGED <<routeVars, tq>>

HarvestNext == HarvestCoordinates \/ HarvestAddress \/ HarvestNeither

HarvestSpec == HarvestInit /\ [][HarvestNext]_vars

----------------------------------------------------------------------------
(* One call of apply_street_heuristics_func on arbitrary candidates, next
   to the route run that calls it at lines 278-285 *)

\* candidates whose clockwise bearings are 90, 30, 29, 270 and 50 degrees,
\* and one that carries no heading
FilterPanos ==
    {Pano(1, 1, 110, 150, 270, "Lombard St"),
     Pano(2, 1, 120, 150, 330, "Lombard St"),
     Pano(3, 1, 130, 150, 331, "Lombard St"),
     Pano(4, 1, 140, 150, 90, "Lombard St"),
     Pano(5, 1, 150, 150, 310, "Lombard St"),
     Pano(6, 1, 160, 150, NoHeading, "Lombard St")}

FilterHeadings == {NoHeading, 90, 350}

FilterCalls ==
    {[kind |-> "filter", phase |-> "input", candidates |-> cs,
      current_heading |-> h, filtered |-> <<>>] :
        cs \in SeqsUpTo(FilterPanos, MaxLen), h \in FilterHeadings}

FilterInit == Init \/ (RouteIdle /\ tq = NoTileQuery /\ call \in FilterCalls)

\* lines 14-41: the filter returns its list
ApplyFilter ==
    /\ call.kind = "filter"
    /\ call.phase = "input"
    /\ call' = [call EXCEPT
          !.phase = "output",
          !.filtered = apply_street_heuristics_func(call.candidates,
                                                    call.current_heading)]
    /\ UNCHANGED <<routeVars, tq>>

FilterNext == Next \/ ApplyFilter

FilterSpec == FilterInit /\ [][FilterNext]_vars

----------------------------------------------------------------------------
(* One call of select_next_panorama_func on arbitrary candidates *)

\* candidates 40, 49, 50, 99 and 100 m from the current position
SelectPanos ==
    {Pano(1, 1, 60, 150, 270, "Lombard St"),
     Pano(2, 1, 149, 150, 270, "Lombard St"),
     Pano(3, 1, 150, 150, 270, "Union St"),
     Pano(4, 1, 199, 150, 270, "Lombard St"),
     Pano(5, 1, 200, 150, 270, "Lombard St")}

SelectCurrent == Coord(100, 150)

SelectEnds == {Coord(300, 150), Coord(0, 150), Coord(100, 150)}

SelectStates == {[api_calls |-> 0, skips |-> k] : k \in 0..1}

SelectCalls ==
    {[kind |-> "select", phase |-> "input", filtered_candidates |-> cs,
      current_coord |-> SelectCurrent, end_coord |-> e, ambiguity_state |-> st,
      next_pano |-> NonePano, updated_ambiguity_state |-> st] :
        cs \in SeqsUpTo(SelectPanos, MaxLen), e \in SelectEnds,
        st \in SelectStates}

SelectInit == RouteIdle /\ tq = NoTileQuery /\ call \in SelectCalls

\* the result of the call on its arguments
SelectResult ==
    select_next_panorama_func(call.filtered_candidates, call.current_coord,
                              call.end_coord, call.ambiguity_state)

\* lines 64-66, 89-92: no candidates, or one candidate holds the top score
SelectReturns ==
    /\ call.phase = "input"
    /\ SelectResult.state = call.ambiguity_state
    /\ call' = [call EXCEPT !.phase = "output",
                            !.next_pano = SelectResult.pano,
                            !.updated_ambiguity_state = SelectResult.state]
    /\ UNCHANGED <<routeVars, tq>>

\* lines 93-125: several candidates hold the top score and a skip is counted
SelectSkips ==
    /\ call.phase = "input"
    /\ SelectResult.state # call.ambiguity_state
    /\ call' = [call EXCEPT !.phase = "output",
                            !.next_pano = SelectResult.pano,
                            !.updated_ambiguity_state = SelectResult.state]
    /\ UNCHANGED <<routeVars, tq>>

SelectNext == SelectReturns \/ SelectSkips

SelectSpec == SelectInit /\ [][SelectNext]_vars

----------------------------------------------------------------------------
(* The tile planner on boundary-distance records with missing keys *)

BoundaryKeys == DistanceKeys \cup {"center_tile"}

WellFormedDistances ==
    {[north |-> n, south |-> 200, east |-> e, west |-> 200,
      center_tile |-> <<10, 10>>] : n \in {30, 200}, e \in {30, 200}}

\* the dict bd with only the keys of D
OnlyKeys(bd, D) == [k \in D |-> bd[k]]

MalformedCalls ==
    {[kind |-> "malformed", strategy |-> st, bd |-> OnlyKeys(bd, D),
      determined |-> "", selected |-> "no", tiles |-> <<>>] :
        st \in Strategies, bd \in WellFormedDistances, D \in SUBSET BoundaryKeys}

MalformedInit == RouteIdle /\ tq = NoTileQuery /\ call \in MalformedCalls

\* determine_search_strategy is called on the record
MalformedDetermine ==
    /\ call.determined = ""
    /\ call' = [call EXCEPT !.determined = determine_search_strategy(call.bd)]
    /\ UNCHANGED <<routeVars, tq>>

\* select_adaptive_tiles is called on the record and returns
MalformedSelectReturns ==
    /\ call.selected = "no"
    /\ ~SelectRaises(call.bd)
    /\ \E tiles \in select_adaptive_tiles(call.strategy, call.bd, MAX_ADAPTIVE_TILES) :
          call' = [call EXCEPT !.selected = "returned", !.tiles = tiles]
    /\ UNCHANGED <<routeVars, tq>>

\* select_adaptive_tiles is called on the record and raises KeyError
MalformedSelectRaises ==
    /\ call.selected = "no"
    /\ SelectRaises(call.bd)
    /\ call' = [call EXCEPT !.selected = "raised"]
    /\ UNCHANGED <<routeVars, tq>>

MalformedNext ==
    \/ MalformedDetermine
    \/ MalformedSelectReturns
    \/ MalformedSelectRaises

MalformedSpec == MalformedInit /\ [][MalformedNext]_vars

----------------------------------------------------------------------------
(* Properties of the route run *)

\* a step of the loop body in which selection returned a panorama
Selecting == pc = "body" /\ pc' = "check" /\ next_pano' # NonePano

\* C1: every route run reaches its terminal state after finitely many loop
\* iterations, whatever the collaborators do (checked under FairSpec)
C1_RunTerminates == <>(pc \in {"done", "raised"})

\* C2 as stated: the selected panorama's key is not in the visited set at
\* that moment, and no key is selected twice in one run
C2_NeverSelectedTwice ==
    [][Selecting => /\ PanoKey(next_pano') \notin visited_set
                    /\ PanoKey(next_pano') \notin hist.selected_keys]_vars

\* C2 amended: the selected panorama's key is not in the visited set at that
\* moment, so a key whose download was recorded is never selected again (a
\* key whose download failed can be selected again)
C2_SelectedNotVisited ==
    [][Selecting => PanoKey(next_pano') \notin visited_set]_vars

\* a panorama was selected while three keys were already visited
C2_Witness ==
    /\ pc = "check"
    /\ next_pano # NonePano
    /\ PanoKey(next_pano) \in visited_set
    /\ Cardinality(visited_set) >= 4

\* C3: the run stops for skips exactly when more than
\* ROUTE_MAX_AMBIGUOUS_SKIPS skips occurred: it never stops for skips while
\* at most that many occurred, and the body never runs after more occurred
C3_AbortsExactlyWhenSkipsExceedMax ==
    /\ (pc = "done" /\ hist.stop_by_skips)
          => hist.skip_events > config.ROUTE_MAX_AMBIGUOUS_SKIPS
    /\ pc = "body" => hist.skip_events <= config.ROUTE_MAX_AMBIGUOUS_SKIPS

\* C4: the skip and API-call counters, in the ambiguity state and in the
\* locals the loop tests and reports, never decrease during a run
C4_CountersNeverDecrease ==
    [][/\ ambiguity_skips' >= ambiguity_skips
       /\ api_calls' >= api_calls
       /\ ambiguity_state'.skips >= ambiguity_state.skips
       /\ ambiguity_state'.api_calls >= ambiguity_state.api_calls]_vars

\* the run ended right after the start panorama, by proximity
OnlyStartPanorama ==
    /\ pano_count = 1
    /\ Len(file_paths) = 1
    /\ hist.searches = 0
    /\ summary.termination_reason = "proximity_to_end"

C6_ReturnsStartPanorama ==
    returned => (Len(file_paths) >= 1 /\ Len(summary.file_paths) >= 1)

\* C7: a run stopped by the skip condition alone reports
\* ambiguity_exhausted, raises nothing and returns all collected file paths
C7_AmbiguityExhaustedReported ==
    (pc = "done" /\ hist.stop_by_skips)
        => /\ summary.termination_reason = "ambiguity_exhausted"
           /\ ~summary.error
           /\ summary.file_paths = file_paths

\* C8: when no planned tile returns coverage in an iteration, the run
\* returns normally with exactly the file paths it had and the reason
\* no_more_candidates
C8_NoCoverageEndsRun ==
    [][(pc = "body" /\ hist'.fetch_raised)
          => /\ pc' = "done"
             /\ returned'
             /\ ~summary'.error
             /\ file_paths' = file_paths
             /\ summary'.file_paths = file_paths
             /\ summary'.panoramas_collected = Len(file_paths)
             /\ summary'.termination_reason = "no_more_candidates"]_vars

\* a run ended by a tile fetch without coverage after it had advanced
C8_Witness ==
    /\ pc = "done"
    /\ hist.fetch_raised
    /\ hist.exit = "no_candidates"
    /\ pano_count >= 2

\* normalize_address on the street names of the model
normalize_address(street) ==
    CASE street = "Lombard St" -> "lombard st"
      [] street = "Union St" -> "union st"
      [] OTHER -> street

\* C9: with several candidates tied at the top score, the first whose
\* normalized street equals the normalized start street is selected; when
\* that is the first tied candidate, api_calls grows by one and skips stays
C9_FirstMatchingStreetSelected ==
    [][(/\ pc = "body"
        /\ pc' = "check"
        /\ Len(hist'.tied) >= 2
        /\ normalize_address(hist'.tied[1].street) = normalize_address(start_street))
          => /\ next_pano' = hist'.tied[1]
             /\ ambiguity_state'.api_calls = ambiguity_state.api_calls + 1
             /\ ambiguity_state'.skips = ambiguity_state.skips]_vars

----------------------------------------------------------------------------
(* Properties of the tile planner *)

\* C10: for every strategy, boundary distances and cap >= 1 the planner
\* returns between 1 and cap tiles, none repeated, the center tile included
C10_CenterTileWithinCap ==
    tq.phase = "output"
        => /\ Len(tq.tiles) >= 1
           /\ Len(tq.tiles) <= tq.cap
           /\ \A i, j \in 1..Len(tq.tiles) : i # j => tq.tiles[i] # tq.tiles[j]
           /\ tq.bd.center_tile \in Range(tq.tiles)

----------------------------------------------------------------------------
(* Properties of the tile planner *)

Edges == {"north", "south", "east", "west"}

\* the edges of a query whose distance is strictly below the threshold
CloseEdges == {e \in Edges : tq.bd[e] < BOUNDARY_ADJACENT_THRESHOLD}

\* two close edges, one of north/south and one of east/west
Orthogonal(S) ==
    \E a \in {"north", "south"} : \E b \in {"east", "west"} : S = {a, b}

\* C11: determine_search_strategy classifies by the number of edges strictly
\* below the threshold: 0 center-only, 1 single-direction, 2 orthogonal
\* corner, 2 opposite multi-direction, 3 or 4 multi-direction; an edge at
\* exactly the threshold is not close (checked under TileSpec)
C11_StrategyByCloseEdges ==
    tq.determined # "" =>
        tq.determined =
            (CASE Cardinality(CloseEdges) = 0 -> "center-only"
               [] Cardinality(CloseEdges) = 1 -> "single-direction"
               [] Cardinality(CloseEdges) = 2 /\ Orthogonal(CloseEdges) -> "corner"
               [] OTHER -> "multi-direction")

\* two orthogonal edges are close and a third lies exactly at the threshold
C11_Witness ==
    /\ tq.determined = "corner"
    /\ tq.bd.north < BOUNDARY_ADJACENT_THRESHOLD
    /\ tq.bd.east < BOUNDARY_ADJACENT_THRESHOLD
    /\ tq.bd.south = BOUNDARY_ADJACENT_THRESHOLD
    /\ tq.bd.west > BOUNDARY_ADJACENT_THRESHOLD

\* the planner returned for a query whose strategy is the one
\* determine_search_strategy gives, under the configured cap
Planned(strategy) ==
    /\ tq.phase = "output"
    /\ tq.strategy = strategy
    /\ determine_search_strategy(tq.bd) = strategy
    /\ tq.cap = MAX_ADAPTIVE_TILES

\* the edge of smallest distance, when one edge is strictly the smallest
SmallestEdge == CHOOSE e \in Edges : \A f \in Edges \ {e} : tq.bd[e] < tq.bd[f]

\* the tile reached from the center by dx columns and dy rows
Offset(dx, dy) == <<tq.bd.center_tile[1] + dx, tq.bd.center_tile[2] + dy>>

\* the neighbour of the center tile across an edge, as the claim lists them
NeighbourAcross(e) ==
    CASE e = "north" -> Offset(0, -1)
      [] e = "south" -> Offset(0, 1)
      [] e = "east"  -> Offset(1, 0)
      [] e = "west"  -> Offset(-1, 0)

\* C12: under the single-direction strategy the planned tiles are the list
\* of the center tile followed by the neighbour across the edge of smallest
\* distance, in that order (checked under TileSpec)
C12_CenterThenNeighbour ==
    Planned("single-direction") =>
        tq.tiles = <<tq.bd.center_tile, NeighbourAcross(SmallestEdge)>>

\* C13: under the center-only strategy select_adaptive_tiles returns exactly
\* one tile, the center tile, whatever the boundary distances are (checked
\* under TileSpec)
C13_CenterOnlyOneTile ==
    (tq.phase = "output" /\ tq.strategy = "center-only")
        => tq.tiles = <<tq.bd.center_tile>>

\* center-only was planned although an edge is close
C13_Witness ==
    /\ tq.phase = "output"
    /\ tq.strategy = "center-only"
    /\ tq.bd.north < BOUNDARY_ADJACENT_THRESHOLD
    /\ tq.cap = MAX_ADAPTIVE_TILES
    /\ tq.tiles = <<tq.bd.center_tile>>

\* the column step toward the close one of east and west
TowardX == IF "east" \in CloseEdges THEN 1 ELSE -1

\* the row step toward the close one of north and south
TowardY == IF "north" \in CloseEdges THEN -1 ELSE 1

\* C14: under the corner strategy with exactly two orthogonal close edges
\* the planned tiles are four distinct tiles: the center, the two neighbours
\* across the close edges and the diagonal that differs from the center in
\* both x and y toward those edges (checked under TileSpec)
C14_CornerFourTiles ==
    (Planned("corner") /\ Cardinality(CloseEdges) = 2 /\ Orthogonal(CloseEdges))
        => /\ Len(tq.tiles) = 4
           /\ Range(tq.tiles) = {Offset(0, 0), Offset(TowardX, 0),
                                 Offset(0, TowardY), Offset(TowardX, TowardY)}

\* a corner plan for close north and east edges holds the north-east tile
C14_Witness ==
    /\ Planned("corner")
    /\ CloseEdges = {"north", "east"}
    /\ Len(tq.tiles) = 4
    /\ Offset(1, -1) \in Range(tq.tiles)

----------------------------------------------------------------------------
(* Properties of rank_panoramas_by_distance *)

\* distance of the i-th input panorama of the call to its reference point
RankDistance(i) == calculate_distance(call.target_coord, call.panoramas[i].pos)

\* positions of the input panoramas within max_distance of the reference
RankKept == {i \in 1..Len(call.panoramas) : RankDistance(i) <= call.max_distance}

\* C15: when rank_panoramas_by_distance returns, its output holds exactly
\* the input panoramas whose distance to the reference is <= maxDistance, in
\* non-decreasing order of distance, equal distances in input order
\* (checked under RankSpec)
C15_RankedExactlySortedStable ==
    (call.phase = "output" /\ ~call.raised) =>
        /\ Len(call.ranked) = Cardinality(RankKept)
        /\ \E f \in [1..Len(call.ranked) -> RankKept] :
              /\ \A k \in 1..Len(call.ranked) : call.ranked[k] = call.panoramas[f[k]]
              /\ \A k, l \in 1..Len(call.ranked) :
                    k < l => \/ RankDistance(f[k]) < RankDistance(f[l])
                             \/ /\ RankDistance(f[k]) = RankDistance(f[l])
                                /\ f[k] < f[l]

\* a returned ranking that dropped a panorama, moved a closer one forward
\* and kept two different panoramas of equal distance in input order
C15_Witness ==
    /\ call.phase = "output"
    /\ ~call.raised
    /\ Len(call.ranked) < Len(call.panoramas)
    /\ \E i \in 1..(Len(call.panoramas) - 1) : RankDistance(i) > RankDistance(i + 1)
    /\ \E k \in 1..(Len(call.ranked) - 1) :
          /\ call.ranked[k] # call.ranked[k + 1]
          /\ calculate_distance(call.target_coord, call.ranked[k].pos)
                = calculate_distance(call.target_coord, call.ranked[k + 1].pos)

----------------------------------------------------------------------------
(* Properties of fetch_adaptive_tiles *)

\* the planned tiles of the call for which the provider has panoramas
TilesWithPanos ==
    {t \in Range(call.selected_tiles) : call.provider[t] = "panos"}

\* C16: fetch_adaptive_tiles queries every planned tile once, in order; a
\* tile whose query fails or returns no panoramas is skipped without
\* stopping the remaining queries; the call returns the coverage of every
\* tile that had panoramas and raises only when no tile had any (checked
\* under FetchSpec)
C16_EveryTileQueriedFailuresSkipped ==
    /\ call.queried = SubSeq(call.selected_tiles, 1, Len(call.queried))
    /\ call.phase \in {"returned", "raised"} => call.queried = call.selected_tiles
    /\ call.phase = "returned" =>
          /\ call.coverage_tiles = SeqFilter(call.selected_tiles, TilesWithPanos)
          /\ TilesWithPanos # {}
    /\ call.phase = "raised" => TilesWithPanos = {}

\* the call returned although the query of an earlier tile raised and
\* another tile was empty
C16_Witness ==
    /\ call.phase = "returned"
    /\ Len(call.selected_tiles) = 3
    /\ call.provider[call.selected_tiles[1]] = "raises"
    /\ call.provider[call.selected_tiles[2]] = "empty"
    /\ call.provider[call.selected_tiles[3]] = "panos"
    /\ call.coverage_tiles = <<call.selected_tiles[3]>>

----------------------------------------------------------------------------
(* Error handling of the route request *)

\* C17: if geocoding of the start or of the end address fails,
\* process_route_request raises to its caller, does not geocode again and
\* calls the download collaborator zero times
C17_GeocodeFailureRaises ==
    [][/\ (pc \in {"geocode_start", "geocode_end"} /\ hist'.geocode_failed # "")
           => /\ pc' = "raised"
              /\ ~returned'
              /\ hist'.geocode_calls = hist.geocode_calls + 1
              /\ hist'.download_calls = 0
       /\ pc # "raised"]_vars

\* the request raised after the start address was geocoded and the end
\* address was not
C17_Witness ==
    /\ pc = "raised"
    /\ hist.geocode_failed = "end"
    /\ hist.geocode_calls = 2
    /\ hist.download_calls = 0
    /\ ~returned

\* C18: if the download of the start panorama fails, the route request
\* ends as a failure propagated to its caller, not as a normal return with
\* an empty result
C18_StartDownloadFailurePropagates ==
    [][(pc = "start" /\ hist'.exit = "exception")
          => (pc' = "raised" /\ ~returned')]_vars

----------------------------------------------------------------------------
(* Properties of the /harvest endpoint *)

\* C20: a harvest request that carries neither coordinates nor an address
\* is answered with status 400, not with status 500 (checked under
\* HarvestSpec)
C20_NeitherGivenIsClientError ==
    (/\ call.phase = "responded"
     /\ call.coordinates = NoCoordinates
     /\ call.address = NoAddress)
        => call.status = 400

\* C21: a harvest request whose address cannot be geocoded is answered
\* with status 400; the geocoding failure is not turned into a status 500
\* (checked under HarvestSpec)
C21_GeocodeFailureIsClientError ==
    (/\ call.phase = "responded"
     /\ ~HasCoordinates(call)
     /\ HasAddress(call)
     /\ call.geocoded = NoCoordinates)
        => call.status = 400

----------------------------------------------------------------------------
(* Termination reason and loop bookkeeping of the route run *)

\* the run returned a summary that carries a termination reason
Summarised == pc = "done" /\ ~summary.error

\* the final position is within the progression threshold of the end
NearEnd ==
    calculate_distance(current_coord, end_coord) <= config.ROUTE_PROGRESSION_THRESHOLD

\* C22: the reported termination reason is that of the first condition that
\* holds in the order proximity_to_end, max_panos, ambiguity_exhausted, and
\* proximity_to_end is reported only when the final position is within the
\* threshold
C22_ReasonOfFirstCondition ==
    Summarised =>
        /\ NearEnd => summary.termination_reason = "proximity_to_end"
        /\ (~NearEnd /\ pano_count >= config.ROUTE_MAX_PANORAMAS)
              => summary.termination_reason = "max_panos"
        /\ (/\ ~NearEnd
            /\ pano_count < config.ROUTE_MAX_PANORAMAS
            /\ ambiguity_skips > config.ROUTE_MAX_AMBIGUOUS_SKIPS)
              => summary.termination_reason = "ambiguity_exhausted"
        /\ summary.termination_reason = "proximity_to_end" => NearEnd

\* a step of the loop body in which the download of the selected panorama
\* failed
DownloadFailed ==
    /\ pc = "body"
    /\ hist'.download_calls > hist.download_calls
    /\ pano_count' = pano_count

\* C23: a failed download grows the skip count by one and leaves position,
\* heading, visited set, count, file paths and distance alone, and the
\* increase stays counted: the loop body never runs after more than
\* ROUTE_MAX_AMBIGUOUS_SKIPS download failures
C23_DownloadFailureCountsAsSkip ==
    [][/\ DownloadFailed
           => /\ ambiguity_skips' = ambiguity_skips + 1
              /\ UNCHANGED <<current_coord, current_heading, visited_set,
                             pano_count, file_paths, total_distance>>
       /\ pc' = "body"
           => hist'.download_calls - pano_count' <= config.ROUTE_MAX_AMBIGUOUS_SKIPS]_vars

\* a step of the loop body in which a panorama was downloaded
Downloaded == pc = "body" /\ pano_count' = pano_count + 1

\* C24: after every successful download inside the loop the current
\* position is the one reported in the downloaded metadata, and the current
\* heading is the metadata's heading when it reports one
C24_PositionFromMetadata ==
    [][Downloaded =>
          LET metadata == metadata_dict'[Len(metadata_dict')]
          IN  /\ current_coord' = metadata.coordinates
              /\ metadata.heading_degrees # NoHeading
                    => current_heading' = metadata.heading_degrees]_vars

\* a step of the loop body in which tied top candidates made selection
\* return nothing
TieSkipped ==
    /\ pc = "body"
    /\ pc' = "check"
    /\ next_pano' = NonePano
    /\ Len(hist'.tied) >= 2

\* C28: when top-score candidates are tied and none is resolved, the
\* iteration selects nothing, the skip count the run tests and reports
\* grows by exactly one, and position, heading, visited set, count and file
\* paths are unchanged
C28_TieSkipsOnce ==
    [][TieSkipped
          => /\ ambiguity_skips' = ambiguity_skips + 1
             /\ UNCHANGED <<current_coord, current_heading, visited_set,
                            pano_count, file_paths>>]_vars

----------------------------------------------------------------------------
(* More properties of the tile planner *)

\* C30: under the multi-direction strategy the planned tiles are the center
\* tile plus exactly one orthogonal neighbour for each edge below the
\* threshold, between 0 and 4 of them, and never a diagonal tile (checked
\* under TileSpec)
C30_MultiDirectionNeighbours ==
    (/\ tq.phase = "output"
     /\ tq.strategy = "multi-direction"
     /\ tq.cap = MAX_ADAPTIVE_TILES)
        => /\ Range(tq.tiles) = {Offset(0, 0)} \cup {NeighbourAcross(e) : e \in CloseEdges}
           /\ Len(tq.tiles) = 1 + Cardinality(CloseEdges)
           /\ \A i \in 1..Len(tq.tiles) :
                 \/ tq.tiles[i][1] = tq.bd.center_tile[1]
                 \/ tq.tiles[i][2] = tq.bd.center_tile[2]

\* a multi-direction plan of all five tiles: every edge is close
C30_Witness ==
    /\ tq.phase = "output"
    /\ tq.strategy = "multi-direction"
    /\ tq.cap = MAX_ADAPTIVE_TILES
    /\ Cardinality(CloseEdges) = 4
    /\ Len(tq.tiles) = 5

----------------------------------------------------------------------------
(* Properties of the heading filter *)

\* the heading filter returned for a call with the current heading set
FilteredWithHeading ==
    /\ call.kind = "filter"
    /\ call.phase = "output"
    /\ call.current_heading # NoHeading

\* clockwise bearing of the i-th candidate of the call
Bearing(i) == (360 - call.candidates[i].heading) % 360

\* difference of the i-th bearing from the current heading, taken modulo
\* 360 into 0..180
BearingDifference(i) ==
    LET m == (Bearing(i) - call.current_heading) % 360
    IN  IF m > 180 THEN 360 - m ELSE m

InSector(i) ==
    /\ call.candidates[i].heading # NoHeading
    /\ BearingDifference(i) <= ROUTE_HEADING_SECTOR_DEGREES

\* the filter's result is the candidate at the least position in S alone,
\* or nothing when S is empty
ReturnsFirstOf(S) ==
    IF S = {} THEN call.filtered = <<>>
    ELSE call.filtered =
            <<call.candidates[CHOOSE i \in S : \A j \in S : i <= j]>>

\* the heading filter left the run without candidates
FilteredOut == pc = "body" /\ pc' = "done" /\ hist'.exit = "filtered_out"

\* the property of C25 for one returned call of the filter
FirstInSectorAlone ==
    (/\ FilteredWithHeading
     /\ \A i \in 1..Len(call.candidates) : call.candidates[i].heading # NoHeading)
        => ReturnsFirstOf({i \in 1..Len(call.candidates) : InSector(i)})

\* C25: with the current heading set and heading information on every
\* candidate, the filter returns only the first candidate whose clockwise
\* bearing is within ROUTE_HEADING_SECTOR_DEGREES of the current heading,
\* and nothing when none is; a run whose filter returns nothing ends with
\* no_more_candidates (checked under FilterSpec)
C25_FirstInSectorOrEnd ==
    [][/\ FirstInSectorAlone'
       /\ FilteredOut => summary'.termination_reason = "no_more_candidates"]_vars

\* the filter passed over a candidate outside the sector and returned one
\* whose bearing differs by exactly the sector, across 0/360
C25_Witness ==
    /\ FilteredWithHeading
    /\ Len(call.candidates) = 3
    /\ \A i \in 1..3 : call.candidates[i].heading # NoHeading
    /\ ~InSector(1)
    /\ InSector(2)
    /\ BearingDifference(2) = ROUTE_HEADING_SECTOR_DEGREES
    /\ Bearing(2) < call.current_heading
    /\ call.filtered = <<call.candidates[2]>>

----------------------------------------------------------------------------
(* Properties of select_next_panorama_func *)

\* distance of the i-th candidate of the call to the current position
ToCurrent(i) ==
    calculate_distance(call.current_coord, call.filtered_candidates[i].pos)

\* distance of the i-th candidate of the call to the end
ToEnd(i) == calculate_distance(call.filtered_candidates[i].pos, call.end_coord)

\* the score the claim gives the i-th candidate
ClaimedScore(i) ==
    (IF ToCurrent(i) < 50 THEN 2 ELSE IF ToCurrent(i) < 100 THEN 1 ELSE 0)
    + (IF ToEnd(i) < calculate_distance(call.current_coord, call.end_coord)
       THEN 2 ELSE 0)

\* positions of the candidates that hold the maximum score
TopPositions ==
    {i \in 1..Len(call.filtered_candidates) :
        \A j \in 1..Len(call.filtered_candidates) : ClaimedScore(j) <= ClaimedScore(i)}

\* C27: with exactly one candidate at the maximum of the score (2 below
\* 50 m, 1 below 100 m, plus 2 when strictly closer to the end than the
\* current position), that candidate is selected and the ambiguity state,
\* its reverse-geocode call count included, is unchanged (checked under
\* SelectSpec)
C27_UniqueTopSelected ==
    (call.phase = "output" /\ Cardinality(TopPositions) = 1) =>
        /\ \A i \in TopPositions : call.next_pano = call.filtered_candidates[i]
        /\ call.updated_ambiguity_state = call.ambiguity_state

\* the unique top candidate was selected although a candidate of lower
\* score is closer to the end
C27_Witness ==
    /\ call.phase = "output"
    /\ Cardinality(TopPositions) = 1
    /\ call.next_pano # NonePano
    /\ \E i \in TopPositions : \E j \in 1..Len(call.filtered_candidates) :
          /\ call.next_pano = call.filtered_candidates[i]
          /\ ClaimedScore(j) < ClaimedScore(i)
          /\ ToEnd(j) < ToEnd(i)

----------------------------------------------------------------------------
(* The tile planner on malformed input *)

\* a distance the called function reads is missing from the record
DistanceMissing == ~(Edges \subseteq DOMAIN call.bd)

\* C29: on an internal error determine_search_strategy returns center-only
\* and select_adaptive_tiles returns exactly the center tile; neither raises
\* for any malformed input (checked under MalformedSpec)
C29_FallBackNeverRaise ==
    /\ (call.determined # "" /\ DistanceMissing) => call.determined = "center-only"
    /\ call.selected # "no" =>
          /\ call.selected = "returned"
          /\ (DistanceMissing /\ call.strategy # "center-only")
                => call.tiles = <<call.bd.center_tile>>

----------------------------------------------------------------------------
(* The cap of the tile planner *)

\* C31: for the same strategy, boundary distances and cap, every result the
\* planner can return holds the same set of tiles as the one it returned:
\* the tiles the cap drops do not depend on the order in which the
\* deduplicated set is listed (checked under TileSpec)
C31_SameTilesEveryOrder ==
    tq.phase = "output" =>
        \A other \in select_adaptive_tiles(tq.strategy, tq.bd, tq.cap) :
            Range(other) = Range(tq.tiles)

\* the distinct tiles the planner generated for the query before the cap
GeneratedTiles == Range(TilesToSearch(tq.strategy, tq.bd))

\* the cap discarded a tile of the query
Truncated == tq.phase = "output" /\ Len(tq.tiles) < Cardinality(GeneratedTiles)

\* the corner strategy called with all four edges below the threshold
FullCorner == tq.strategy = "corner" /\ CloseEdges = Edges

\* C32 as stated: with the default cap of 5 no strategy and no boundary
\* distances generate more than 5 distinct tiles, so the cap discards none;
\* a tile is discarded only under a cap below 5
C32_DefaultCapNeverDiscards ==
    tq.phase = "output" =>
        /\ Cardinality(GeneratedTiles) <= MAX_ADAPTIVE_TILES
        /\ Truncated => tq.cap < MAX_ADAPTIVE_TILES

\* C32: more than 5 distinct tiles are generated only by the corner strategy
\* called with all four edges below the threshold (6 tiles); the cap
\* discards a tile only when it is below 5, or is 5 in that case; under the
\* strategy determine_search_strategy gives for the distances a cap of 5 or
\* more discards nothing (checked under TileSpec)
C32_DiscardsBelowFiveOrFullCorner ==
    tq.phase = "output" =>
        /\ Cardinality(GeneratedTiles) > MAX_ADAPTIVE_TILES
              <=> FullCorner
        /\ FullCorner => Cardinality(GeneratedTiles) = MAX_ADAPTIVE_TILES + 1
        /\ Truncated =>
              \/ tq.cap < MAX_ADAPTIVE_TILES
              \/ tq.cap = MAX_ADAPTIVE_TILES /\ FullCorner
        /\ (tq.strategy = determine_search_strategy(tq.bd)
               /\ tq.cap >= MAX_ADAPTIVE_TILES)
              => Range(tq.tiles) = GeneratedTiles

\* all four edges are close, the strategy is the one the classifier gives
\* and the default cap keeps all five generated tiles
C32_Witness ==
    /\ tq.phase = "output"
    /\ tq.cap = MAX_ADAPTIVE_TILES
    /\ CloseEdges = Edges
    /\ tq.strategy = determine_search_strategy(tq.bd)
    /\ Len(tq.tiles) = MAX_ADAPTIVE_TILES

----------------------------------------------------------------------------
(* Calls of the discovery functions on arbitrary arguments, beside route runs *)

\* panoramas at, near and beyond the search radius of the reference points
SearchPanos ==
    [a |-> Pano(1, 1, 100, 150, 270, "Lombard St"),
     b |-> Pano(2, 1, 90, 150, 270, "Lombard St"),
     c |-> Pano(3, 1, 295, 150, 270, "Lombard St"),
     d |-> Pano(4, 1, 301, 150, 270, "Lombard St")]

\* coverage.panos of the tiles a provider answers with: the provider may
\* list one panorama in the coverage of two tiles
SearchTilePanos ==
    {<<SearchPanos.a, SearchPanos.c>>, <<SearchPanos.b, SearchPanos.a>>,
     <<SearchPanos.d>>, <<SearchPanos.c, SearchPanos.b>>}

SearchCoords == {Coord(100, 150), Coord(95, 150)}

SearchVisited ==
    {{}, {PanoKey(SearchPanos.a)}, {PanoKey(SearchPanos.a), PanoKey(SearchPanos.c)}}

\* find_nearby_panoramas_func from the answer of fetch_adaptive_tiles on:
\* fetch keeps only tiles that hold panoramas
SearchCalls ==
    {[kind |-> "search", phase |-> "input", coverage_tiles |-> cs,
      current_coord |-> c, visited_set |-> v, candidates |-> <<>>] :
        cs \in SeqsUpTo(SearchTilePanos, MaxTiles), c \in SearchCoords,
        v \in SearchVisited}

\* aggregate_panoramas on any list of tiles, tiles without panoramas included
AggregateCalls ==
    {[kind |-> "aggregate", phase |-> "input", coverage_tiles |-> cs,
      raised |-> FALSE, all_panoramas |-> <<>>] :
        cs \in SeqsUpTo(SearchTilePanos \cup {<<>>}, MaxTiles)}

DiscoveryInit ==
    \/ Init
    \/ /\ RouteIdle
       /\ tq = NoTileQuery
       /\ call \in SearchCalls \cup AggregateCalls \cup RankCalls

\* lines 157-187: an empty fetch answer gives no candidates, otherwise the
\* merged list is filtered and sorted
SearchReturns ==
    /\ call.kind = "search"
    /\ call.phase = "input"
    /\ call' = [call EXCEPT
          !.phase = "output",
          !.candidates =
              IF call.coverage_tiles = <<>> THEN <<>>
              ELSE nearby_candidates(Concat(call.coverage_tiles),
                                     call.current_coord, ROUTE_SEARCH_RADIUS,
                                     call.visited_set)]
    /\ UNCHANGED <<routeVars, tq>>

\* lines 69-84: the panos of the tiles are appended tile after tile
AggregateReturns ==
    /\ call.kind = "aggregate"
    /\ call.phase = "input"
    /\ Concat(call.coverage_tiles) # <<>>
    /\ call' = [call EXCEPT !.phase = "output",
                            !.all_panoramas = Concat(call.coverage_tiles)]
    /\ UNCHANGED <<routeVars, tq>>

\* lines 80-82, 86-88: no tile holds a panorama
AggregateRaises ==
    /\ call.kind = "aggregate"
    /\ call.phase = "input"
    /\ Concat(call.coverage_tiles) = <<>>
    /\ call' = [call EXCEPT !.phase = "output", !.raised = TRUE]
    /\ UNCHANGED <<routeVars, tq>>

RankCall == call.kind = "rank" /\ RankNext

DiscoveryNext ==
    Next \/ SearchReturns \/ AggregateReturns \/ AggregateRaises \/ RankCall

DiscoverySpec == DiscoveryInit /\ [][DiscoveryNext]_vars

----------------------------------------------------------------------------
(* Properties of aggregation, ranking and the search step *)

SearchDone == call.kind = "search" /\ call.phase = "output"

\* C33: the candidate list the search step builds from the fetched tiles
\* holds no two panoramas of the same id and build id, also when a panorama
\* is listed in the coverage of two tiles (checked under DiscoverySpec)
C33_CandidatesListedOnce ==
    SearchDone =>
        \A i, j \in 1..Len(call.candidates) :
            i # j => PanoKey(call.candidates[i]) # PanoKey(call.candidates[j])

\* C34: rank_panoramas_by_distance raises exactly when no input panorama is
\* within max_distance of the reference, the empty input included, and what
\* it returns is never empty; aggregate_panoramas raises exactly when no
\* tile holds a panorama and what it returns is never empty (checked under
\* DiscoverySpec)
C34_EmptyResultRaises ==
    /\ (call.kind = "rank" /\ call.phase = "output") =>
          /\ call.raised <=> RankKept = {}
          /\ ~call.raised => call.ranked # <<>>
    /\ (call.kind = "aggregate" /\ call.phase = "output") =>
          /\ call.raised <=>
                \A i \in 1..Len(call.coverage_tiles) : call.coverage_tiles[i] = <<>>
          /\ ~call.raised => call.all_panoramas # <<>>

\* the ranking raised on a list that holds panoramas, all of them too far
C34_Witness ==
    /\ call.kind = "rank"
    /\ call.phase = "output"
    /\ call.raised
    /\ Len(call.panoramas) >= 2

\* how often a panorama occurs in a list
Occurrences(p, s) == Cardinality({i \in 1..Len(s) : s[i] = p})

SearchDistance(p) == calculate_distance(call.current_coord, p.pos)

\* a panorama the search step has to keep
Eligible(p) ==
    /\ SearchDistance(p) <= ROUTE_SEARCH_RADIUS
    /\ PanoKey(p) \notin call.visited_set

\* C35: the candidate list of the search step holds the aggregated
\* panoramas within ROUTE_SEARCH_RADIUS of the current position whose key is
\* not visited, each as often as the fetched tiles list it, and no other, in
\* non-decreasing order of distance; a run whose search finds no candidate
\* ends with the reason no_more_candidates (checked under DiscoverySpec)
C35_CandidatesExactSortedOrRunEnds ==
    /\ SearchDone =>
          LET all_panoramas == Concat(call.coverage_tiles)
          IN  /\ \A p \in Range(all_panoramas) \cup Range(call.candidates) :
                    Occurrences(p, call.candidates) =
                        IF Eligible(p) THEN Occurrences(p, all_panoramas) ELSE 0
              /\ \A k, l \in 1..Len(call.candidates) :
                    k < l => SearchDistance(call.candidates[k])
                                <= SearchDistance(call.candidates[l])
    /\ hist.exit = "no_candidates" =>
          /\ pc = "done"
          /\ returned
          /\ ~summary.error
          /\ summary.termination_reason = "no_more_candidates"

\* a search that dropped a visited panorama and one beyond the radius, kept
\* one at exactly the radius and moved a closer panorama before a farther
C35_Witness ==
    /\ SearchDone
    /\ LET all_panoramas == Concat(call.coverage_tiles)
       IN  /\ \E p \in Range(all_panoramas) : PanoKey(p) \in call.visited_set
           /\ \E p \in Range(all_panoramas) : SearchDistance(p) > ROUTE_SEARCH_RADIUS
           /\ \E p \in Range(call.candidates) :
                 SearchDistance(p) = ROUTE_SEARCH_RADIUS
           /\ \E i, j \in 1..Len(all_panoramas) :
                 /\ i < j
                 /\ Eligible(all_panoramas[i])
                 /\ Eligible(all_panoramas[j])
                 /\ SearchDistance(all_panoramas[i]) > SearchDistance(all_panoramas[j])

----------------------------------------------------------------------------
(* Properties of whole route runs: progression, counts, heading, skips *)

\* C36: every advance to a newly downloaded panorama moves the current
\* position to a point no farther from the end coordinate than the previous
\* position
C36_DistanceToEndNeverIncreases ==
    [][Downloaded =>
          calculate_distance(current_coord', end_coord)
              <= calculate_distance(current_coord, end_coord)]_vars

\* the three records of collected panoramas agree
CountsAgree ==
    /\ pano_count = Len(file_paths)
    /\ pano_count = Cardinality(visited_set)

\* a download returned and its metadata was stored
DownloadStored == Len(metadata_dict') = Len(metadata_dict) + 1

\* C37: once the start panorama is recorded the number of panoramas
\* collected equals the number of file paths and the size of the visited
\* set; a step in which a download is stored adds exactly one to all three,
\* every other step leaves all three alone
C37_CountPathsVisitedAgree ==
    [][/\ pano_count' >= 1 => CountsAgree'
       /\ IF DownloadStored
          THEN /\ pano_count' = pano_count + 1
               /\ Len(file_paths') = Len(file_paths) + 1
               /\ SubSeq(file_paths', 1, Len(file_paths)) = file_paths
               /\ visited_set \subseteq visited_set'
               /\ Cardinality(visited_set') = Cardinality(visited_set) + 1
          ELSE UNCHANGED <<pano_count, file_paths, visited_set>>]_vars

\* a run that failed one download and stored three
C37_Witness ==
    /\ pano_count = 3
    /\ CountsAgree
    /\ hist.download_calls > pano_count

\* a step that calls download_func
DownloadStarted ==
    \/ hist'.download_calls > hist.download_calls
    \/ DownloadStored

\* C38: the number of panoramas collected never exceeds ROUTE_MAX_PANORAMAS
\* (which is at least 1), and no download is started once it is reached
C38_NeverMoreThanMaxPanoramas ==
    [][/\ pano_count' <= config'.ROUTE_MAX_PANORAMAS
       /\ DownloadStarted => pano_count < config.ROUTE_MAX_PANORAMAS]_vars

\* a run stopped at a maximum of 2 while a further candidate was in reach
C38_Witness ==
    /\ pc = "done"
    /\ config.ROUTE_MAX_PANORAMAS = 2
    /\ pano_count = 2
    /\ summary.termination_reason = "max_panos"
    /\ \E p \in Range(World) :
          /\ PanoKey(p) \notin visited_set
          /\ calculate_distance(current_coord, p.pos) <= config.ROUTE_SEARCH_RADIUS

C40_SummarySkipsCountIterations ==
    (Summarised /\ hist.skip_events < MaxCount) =>
        /\ summary.ambiguity_skips = hist.skip_events
        /\ hist.download_calls = pano_count
              => summary.ambiguity_skips = ambiguity_state.skips

====
